---------------------------- MODULE Spec2Model ----------------------------
(***************************************************************************)
(* A model of orsted (src/main.go): the one-shot bootstrap of a single     *)
(* control-plane Kubernetes node.  main() is one sequential thread that    *)
(* calls external collaborators one after the other; every collaborator    *)
(* call is one atomic step of the model (the call and its return), and     *)
(* the program counter pc names the call that is made next.                *)
(*                                                                         *)
(* The collaborators (systemctl, kubeadm, kubectl, the API server, the     *)
(* chart installer, the network) are the environment: each call may fail,  *)
(* which the actions choose with \E.  What the collaborators remember      *)
(* between calls (namespaces, releases, repositories, applied manifests)   *)
(* is the cluster state, which outlives the process.  A call that fails    *)
(* leaves the cluster state as it was.                                     *)
(*                                                                         *)
(* calls is the history of one run: every call made, in order, with the    *)
(* reason of its failure ("none" when it returned without error).          *)
(***************************************************************************)
EXTENDS Integers, Sequences, FiniteSets, TLC

----------------------------------------------------------------------------
(* Bounds of the model                                                     *)

\* Longest scripted run of not-ready answers of the pod listing.
MaxNotReady == 2

\* How many times the operator starts the program on the same cluster.
MaxRuns == 2

\* Longest value template of the CNI chart, in chunks.
MaxChunks == 2

\* How many times the stage harness invokes a chart-install stage.
MaxInvoke == 3

\* The answer script "the listing never becomes ready".
Never == 0 - 1

----------------------------------------------------------------------------
(* Strings, as sequences of one-character strings                          *)

\* The placeholder token of values/cilium.yaml (src/main.go:148).
K8SHOST == <<"K", "8", "S", "H", "O", "S", "T">>

\* strings.Index: the position (from 1) of the first occurrence of old in s
\* at or after position i, 0 when there is none.
RECURSIVE IndexFrom(_, _, _)
IndexFrom(s, old, i) ==
    IF i + Len(old) - 1 > Len(s) THEN 0
    ELSE IF SubSeq(s, i, i + Len(old) - 1) = old THEN i
    ELSE IndexFrom(s, old, i + 1)

Index(s, old) == IndexFrom(s, old, 1)

Contains(s, old) == Index(s, old) # 0

\* strings.Replace(s, old, new, n) for a non-empty old: the first n
\* non-overlapping occurrences of old, scanning from the left, are replaced
\* by new; n < 0 replaces them all.
RECURSIVE Replace(_, _, _, _)
Replace(s, old, new, n) ==
    IF old = new \/ n = 0 THEN s
    ELSE LET j == Index(s, old) IN
         IF j = 0 THEN s
         ELSE SubSeq(s, 1, j - 1) \o new
              \o Replace(SubSeq(s, j + Len(old), Len(s)), old, new, n - 1)

\* The value templates the embedded values/cilium.yaml is drawn from: its
\* text is not part of the sources, so every template of at most MaxChunks
\* chunks is tried.  One chunk is the placeholder, the other a text that
\* shares a prefix with it.
Chunks == {K8SHOST, <<"K", "8", ":">>}

RECURSIVE TemplatesOfLen(_)
TemplatesOfLen(n) ==
    IF n = 0 THEN {<<>>}
    ELSE {c \o t : c \in Chunks, t \in TemplatesOfLen(n - 1)}

Templates == UNION {TemplatesOfLen(n) : n \in 0..MaxChunks}

\* The addresses GetDefaultIP().String() is drawn from.
Addresses == {<<"1", "0", ".", "0", ".", "0", ".", "5">>, <<":", ":", "1">>}

\* The bytes of /etc/kubernetes/admin.conf.
AdminConf == <<"admin.conf">>

----------------------------------------------------------------------------
(* State                                                                   *)

VARIABLES
    \* the cluster and the host, which outlive the process
    applied,        \* effects of the commands that have succeeded
    namespaces,     \* namespaces created through the API
    releases,       \* chart releases, as <<ReleaseName, Namespace>>
    repos,          \* chart repositories of /tmp/.helmrepo
    \* the process
    pc,             \* the call main() makes next, or Done / Failed
    kubeConfig,     \* var kubeConfig (src/main.go:290)
    defaultIp,      \* defaultIp of main()
    ciliumValues,   \* ciliumSpec.ValuesYaml
    \* the history of this run
    calls,          \* the calls made, in order, each with its result
    listCalls,      \* pod listings made
    slept,          \* seconds spent in time.Sleep
    fatalLine,      \* the line log.Fatalf wrote, NoLine while the run goes on
    installs,       \* the ChartSpecs handed to the chart installer, in order
    fileReads,      \* reads of /etc/kubernetes/admin.conf by this process
    nsAtStart,      \* the namespaces that existed when this run started
    invoked,        \* stage invocations made by the stage harness
    \* the environment
    run,            \* number of this run
    scriptN,        \* not-ready answers before the first ready one, or Never
    CiliumYaml      \* the embedded values/cilium.yaml

clusterVars == <<applied, namespaces, releases, repos>>
procVars    == <<kubeConfig, defaultIp, ciliumValues, installs>>
pollVars    == <<listCalls, slept>>
envVars     == <<run, scriptN, CiliumYaml, nsAtStart, invoked>>
vars == <<applied, namespaces, releases, repos, pc, kubeConfig, defaultIp,
          ciliumValues, calls, listCalls, slept, fatalLine, installs,
          fileReads, nsAtStart, invoked, run, scriptN, CiliumYaml>>

----------------------------------------------------------------------------
(* The pipeline of main()                                                  *)

\* Mutant: the Gateway CRDs are applied before the taint is removed.
PipelineCrdsBeforeUntaint ==
    << "EnableKubelet", "KubeadmInit", "BuildConfig", "NewClient",
       "ListPods", "GatewayCRDs", "Untaint", "HelmClientDefault",
       "AddCiliumRepo", "AddKyvernoRepo", "AddRookRepo", "AddGitopsRepo",
       "GetDefaultIP", "InstallCilium", "CreateKyvernoNs", "InstallKyverno",
       "CreateRookNs", "RookOverrides", "HelmClientRook", "InstallRookOp",
       "InstallRookCluster", "CreateGitopsNs", "InstallGitops",
       "DefaultPolicies" >>

\* Mutant: the gitops repository is registered after the CNI install.
PipelineGitopsRepoLate ==
    << "EnableKubelet", "KubeadmInit", "BuildConfig", "NewClient",
       "ListPods", "Untaint", "GatewayCRDs", "HelmClientDefault",
       "AddCiliumRepo", "AddKyvernoRepo", "AddRookRepo",
       "GetDefaultIP", "InstallCilium", "AddGitopsRepo", "CreateKyvernoNs",
       "InstallKyverno", "CreateRookNs", "RookOverrides", "HelmClientRook",
       "InstallRookOp", "InstallRookCluster", "CreateGitopsNs",
       "InstallGitops", "DefaultPolicies" >>

\* Mutant: the storage overrides are applied before the rook-ceph namespace
\* is created.
PipelineOverridesBeforeNs ==
    << "EnableKubelet", "KubeadmInit", "BuildConfig", "NewClient",
       "ListPods", "Untaint", "GatewayCRDs", "HelmClientDefault",
       "AddCiliumRepo", "AddKyvernoRepo", "AddRookRepo", "AddGitopsRepo",
       "GetDefaultIP", "InstallCilium", "CreateKyvernoNs", "InstallKyverno",
       "RookOverrides", "CreateRookNs", "HelmClientRook", "InstallRookOp",
       "InstallRookCluster", "CreateGitopsNs", "InstallGitops",
       "DefaultPolicies" >>

\* Mutant: the taint is removed before the readiness poll.
PipelineUntaintBeforePoll ==
    << "EnableKubelet", "KubeadmInit", "BuildConfig", "NewClient",
       "Untaint", "ListPods", "GatewayCRDs", "HelmClientDefault",
       "AddCiliumRepo", "AddKyvernoRepo", "AddRookRepo", "AddGitopsRepo",
       "GetDefaultIP", "InstallCilium", "CreateKyvernoNs", "InstallKyverno",
       "CreateRookNs", "RookOverrides", "HelmClientRook", "InstallRookOp",
       "InstallRookCluster", "CreateGitopsNs", "InstallGitops",
       "DefaultPolicies" >>

\* Mutant: the host address is discovered after the CNI install.
PipelineIpAfterCilium ==
    << "EnableKubelet", "KubeadmInit", "BuildConfig", "NewClient",
       "ListPods", "Untaint", "GatewayCRDs", "HelmClientDefault",
       "AddCiliumRepo", "AddKyvernoRepo", "AddRookRepo", "AddGitopsRepo",
       "InstallCilium", "GetDefaultIP", "CreateKyvernoNs", "InstallKyverno",
       "CreateRookNs", "RookOverrides", "HelmClientRook", "InstallRookOp",
       "InstallRookCluster", "CreateGitopsNs", "InstallGitops",
       "DefaultPolicies" >>

\* The calls of main() in source order; pc ranges over these names, Sleep,
\* Done and Failed.
Pipeline ==
    << "EnableKubelet", "KubeadmInit", "BuildConfig", "NewClient",
       "ListPods", "Untaint", "GatewayCRDs", "HelmClientDefault",
       "AddCiliumRepo", "AddKyvernoRepo", "AddRookRepo", "AddGitopsRepo",
       "GetDefaultIP", "InstallCilium", "CreateKyvernoNs", "InstallKyverno",
       "CreateRookNs", "RookOverrides", "HelmClientRook", "InstallRookOp",
       "InstallRookCluster", "CreateGitopsNs", "InstallGitops",
       "DefaultPolicies" >>

PosOf(op) == CHOOSE i \in 1..Len(Pipeline) : Pipeline[i] = op

\* Where control goes when the call op returns without error: the next call
\* of main(), and the return of main() after the last one.
Succ(op) ==
    IF PosOf(op) = Len(Pipeline) THEN "Done" ELSE Pipeline[PosOf(op) + 1]

\* One entry of the history: the call made and why it failed ("none" when
\* it did not).
Call(op, why) == [op |-> op, why |-> why]

IsErr(c) == c.why # "none"

\* A log line: its format string and what the format embeds, the error
\* value ("err"), the captured output of the command ("output") or nothing.
Line(text, arg) == [text |-> text, arg |-> arg]

NoLine == Line("", "none")

\* The line of the log.Fatalf call that ends the run when the call op fails
\* for the reason why.  A failed read of the credential file ends the run
\* inside initKubeConf, whichever call asked for the handle.
FatalLine(op, why) ==
    IF why = "read" THEN Line("Failed to read kubeconfig file: %s", "err")
    ELSE CASE op = "EnableKubelet" ->
                Line("Unable to enable kubelet and crio: %s", "err")
           [] op = "KubeadmInit" -> Line("Kubeadm output: %s", "output")
           [] op = "BuildConfig" ->
                Line("Failed to parse kubernetes config: %s", "err")
           [] op = "NewClient" ->
                Line("Failed to create kubernetes client: %s", "err")
           [] op = "Untaint" -> Line("Kubectl output: %s", "output")
           [] op = "GatewayCRDs" -> Line("Kubectl output: %s", "output")
           [] op = "HelmClientDefault" ->
                Line("Failed to create helm client: %s", "err")
           [] op = "AddCiliumRepo" ->
                Line("Failed to add Cilium Helm chart: %s", "err")
           [] op = "AddKyvernoRepo" ->
                Line("Failed to add Kyverno Helm chart: %s", "err")
           [] op = "AddRookRepo" ->
                Line("Failed to add Rook Ceph Helm chart: %s", "err")
           [] op = "AddGitopsRepo" ->
                Line("Failed to add Weave GitOps Helm chart: %s", "err")
           [] op = "GetDefaultIP" -> Line("Failed to get default ip: %s", "err")
           [] op = "InstallCilium" ->
                Line("Failed to install Cilium: %s", "err")
           [] op = "CreateKyvernoNs" ->
                Line("Failed to create kyverno namespace: %s", "err")
           [] op = "InstallKyverno" ->
                Line("Failed to install Kyverno: %s", "err")
           [] op = "CreateRookNs" ->
                Line("Failed to create rook-ceph namespace: %s", "err")
           [] op = "RookOverrides" -> Line("Kubectl output: %s", "output")
           [] op = "HelmClientRook" ->
                Line("Failed to create rook helm client", "none")
           [] op = "InstallRookOp" ->
                Line("Failed to install rook-ceph operator: %s", "err")
           [] op = "InstallRookCluster" ->
                Line("Failed to install rook-ceph-cluster: %s", "err")
           [] op = "CreateGitopsNs" ->
                Line("Failed to create weave-gitops namespace: %s", "err")
           [] op = "InstallGitops" ->
                Line("Failed to install weave-gitops: %s", "err")
           [] op = "DefaultPolicies" -> Line("Kubectl output: %s", "output")
           [] OTHER -> NoLine

\* The call op returned without error: main() goes on to its next call.
Return(op) ==
    /\ pc' = Succ(op)
    /\ calls' = Append(calls, Call(op, "none"))
    /\ UNCHANGED fatalLine

\* Mutant: the error is logged and main() goes on.
FatalLogsAndGoesOn(op, why) ==
    /\ pc' = Succ(op)
    /\ calls' = Append(calls, Call(op, why))
    /\ fatalLine' = FatalLine(op, why)

\* Mutant: the call that failed is made again.
FatalRetries(op, why) ==
    /\ pc' = op
    /\ calls' = Append(calls, Call(op, why))
    /\ fatalLine' = FatalLine(op, why)

\* The call op failed and main() ends in log.Fatalf, which exits with
\* status 1.
Fatal(op, why) ==
    /\ pc' = "Failed"
    /\ calls' = Append(calls, Call(op, why))
    /\ fatalLine' = FatalLine(op, why)

----------------------------------------------------------------------------
(* The collaborators                                                       *)

SystemNamespaces == {"kube-system", "default"}

\* Mutant: creation is an upsert that accepts a name that exists.
CreateNamespaceUpsert(name, fault) ==
    IF fault THEN [why |-> "api", namespaces |-> namespaces]
    ELSE [why |-> "none", namespaces |-> namespaces \cup {name}]

\* Namespaces().Create: the API server refuses a name that exists.
CreateNamespace(name, fault) ==
    IF name \in namespaces
    THEN [why |-> "conflict", namespaces |-> namespaces]
    ELSE IF fault THEN [why |-> "api", namespaces |-> namespaces]
    ELSE [why |-> "none", namespaces |-> namespaces \cup {name}]

\* The ChartSpec values of main().  ChartName is <<repository, chart>>,
\* Timeout is in minutes.
ciliumSpec ==
    [ ReleaseName |-> "cilium", ChartName |-> <<"cilium", "cilium">>,
      Namespace |-> "kube-system", Wait |-> TRUE, WaitForJobs |-> TRUE,
      Timeout |-> 7,
      ValuesYaml |-> Replace(CiliumYaml, K8SHOST, defaultIp, 1) ]

kyvernoSpec ==
    [ ReleaseName |-> "kyverno", ChartName |-> <<"kyverno", "kyverno">>,
      Namespace |-> "kyverno", Wait |-> TRUE, WaitForJobs |-> TRUE,
      Timeout |-> 4, ValuesYaml |-> <<>> ]

rookOpSpec ==
    [ ReleaseName |-> "rook-ceph", ChartName |-> <<"rook", "rook-ceph">>,
      Namespace |-> "rook-ceph", Wait |-> TRUE, WaitForJobs |-> TRUE,
      Timeout |-> 2, ValuesYaml |-> <<"RookOperatorYaml">> ]

\* Mutant: the storage cluster is released under the operator's name.
rookClusterSpecSameRelease ==
    [ ReleaseName |-> "rook-ceph",
      ChartName |-> <<"rook", "rook-ceph-cluster">>,
      Namespace |-> "rook-ceph", Wait |-> TRUE, WaitForJobs |-> TRUE,
      Timeout |-> 5, ValuesYaml |-> <<"CephClusterYaml">> ]

rookClusterSpec ==
    [ ReleaseName |-> "rook-ceph-cluster",
      ChartName |-> <<"rook", "rook-ceph-cluster">>,
      Namespace |-> "rook-ceph", Wait |-> TRUE, WaitForJobs |-> TRUE,
      Timeout |-> 5, ValuesYaml |-> <<"CephClusterYaml">> ]

gitopsSpec ==
    [ ReleaseName |-> "weave-gitops",
      ChartName |-> <<"gitops", "weave-gitops">>,
      Namespace |-> "weave-gitops", Wait |-> TRUE, WaitForJobs |-> TRUE,
      Timeout |-> 15, ValuesYaml |-> <<"GitOpsYaml">> ]

ReleaseOf(spec) == <<spec.ReleaseName, spec.Namespace>>

\* What every install needs of the cluster: the chart's repository is in
\* the repository file and the target namespace exists.
ChartPrecondition(spec) ==
    IF spec.ChartName[1] \notin repos THEN "norepo"
    ELSE IF spec.Namespace \notin namespaces \cup SystemNamespaces
    THEN "nonamespace"
    ELSE "none"

\* Client.InstallOrUpgradeChart: installs the release, or upgrades it when
\* a release of that name exists in the namespace.
InstallOrUpgradeChart(spec, fault) ==
    IF ChartPrecondition(spec) # "none"
    THEN [why |-> ChartPrecondition(spec), releases |-> releases]
    ELSE IF fault THEN [why |-> "chart", releases |-> releases]
    ELSE [why |-> "none", releases |-> releases \cup {ReleaseOf(spec)}]

\* Client.InstallChart: the install action alone; it refuses a release name
\* that is in use in the namespace.
InstallChart(spec, fault) ==
    IF ChartPrecondition(spec) # "none"
    THEN [why |-> ChartPrecondition(spec), releases |-> releases]
    ELSE IF ReleaseOf(spec) \in releases
    THEN [why |-> "exists", releases |-> releases]
    ELSE IF fault THEN [why |-> "chart", releases |-> releases]
    ELSE [why |-> "none", releases |-> releases \cup {ReleaseOf(spec)}]

\* The faults a chart-installer call is exposed to: the credential file
\* cannot be read, the handle cannot be built, the chart does not install.
Faults == {"none", "read", "client", "chart"}

\* initKubeConf: reads the credential file when the cache is empty, and
\* ends the process when the read fails.
initKubeConf(fault) ==
    IF Len(kubeConfig) # 0
    THEN [why |-> "none", kubeConfig |-> kubeConfig, fileReads |-> fileReads]
    ELSE IF fault = "read"
    THEN [why |-> "read", kubeConfig |-> kubeConfig,
          fileReads |-> fileReads + 1]
    ELSE [why |-> "none", kubeConfig |-> AdminConf,
          fileReads |-> fileReads + 1]

\* helmClientForNs: initKubeConf, then helmclient.NewClientFromKubeConf.
helmClientForNs(ns, fault) ==
    LET k == initKubeConf(fault) IN
    IF k.why # "none" THEN k
    ELSE IF fault = "client" THEN [k EXCEPT !.why = "client"]
    ELSE k

\* InstallSpecWithNSClient: a handle for ns, then InstallChart.
InstallSpecWithNSClient(ns, spec, fault) ==
    LET h == helmClientForNs(ns, fault) IN
    IF h.why # "none"
    THEN [why |-> h.why, releases |-> releases, handed |-> <<>>,
          kubeConfig |-> h.kubeConfig, fileReads |-> h.fileReads]
    ELSE LET r == InstallChart(spec, fault = "chart") IN
         [why |-> r.why, releases |-> r.releases, handed |-> <<spec>>,
          kubeConfig |-> h.kubeConfig, fileReads |-> h.fileReads]

\* InstallOrUpgradeChart of spec on a handle main() already holds
\* (helmClient, rookHelm).
OnHandle(spec, fault) ==
    LET r == InstallOrUpgradeChart(spec, fault = "chart") IN
    [why |-> r.why, releases |-> r.releases, handed |-> <<spec>>,
     kubeConfig |-> kubeConfig, fileReads |-> fileReads]

ChartStages ==
    {"InstallCilium", "InstallKyverno", "InstallRookOp",
     "InstallRookCluster", "InstallGitops"}

\* The chart-install stage op, as main() invokes it.
ChartStage(op, fault) ==
    CASE op = "InstallCilium" ->
           OnHandle(ciliumSpec, fault)
      [] op = "InstallKyverno" ->
           InstallSpecWithNSClient("kyverno", kyvernoSpec, fault)
      [] op = "InstallRookOp" ->
           OnHandle(rookOpSpec, fault)
      [] op = "InstallRookCluster" ->
           OnHandle(rookClusterSpec, fault)
      [] op = "InstallGitops" ->
           InstallSpecWithNSClient("weave-gitops", gitopsSpec, fault)

----------------------------------------------------------------------------
(* The readiness poll                                                      *)

\* What Pods("kube-system").List can answer: an error, an empty list, a
\* list with pods.
Answers ==
    { [err |-> TRUE, items |-> 0], [err |-> FALSE, items |-> 0],
      [err |-> FALSE, items |-> 1] }

\* Mutant: only an error counts as not ready.
NotReadyOnErrorOnly(ans) == ans.err

\* The condition of the loop of main(): err != nil || len(pods.Items) == 0.
NotReady(ans) == ans.err \/ ans.items = 0

\* Mutant: a transport error of the listing ends the run.
AfterListErrorFatal(ans) ==
    IF ans.err THEN "Failed"
    ELSE IF ans.items = 0 THEN "Sleep" ELSE Succ("ListPods")

\* Mutant: the loop sleeps after its first listing, whatever the answer.
AfterListSleepsFirst(ans) ==
    IF NotReady(ans) \/ listCalls = 0
    THEN "Sleep" ELSE Succ("ListPods")

\* Where the loop goes after a listing: to the sleep and around again while
\* the cluster is not ready, out of the loop when it is.
AfterList(ans) == IF NotReady(ans) THEN "Sleep" ELSE Succ("ListPods")

\* The answers the cluster gives to the listing made after listCalls
\* earlier ones: not-ready ones while the script lasts, pods afterwards.
ScriptedAnswers ==
    IF scriptN # Never /\ listCalls >= scriptN
    THEN {a \in Answers : ~a.err /\ a.items > 0}
    ELSE {a \in Answers : a.err \/ a.items = 0}

\* Under the script Never the history stops counting after PollCap polls,
\* so that the endless loop has finitely many states.
PollCap == MaxNotReady + 1

Saturated(n) == scriptN = Never /\ n >= PollCap

\* The interval of the poll, in seconds.
SleepSeconds == 10

----------------------------------------------------------------------------
(* The steps of main()                                                     *)

\* Mutant: the error of the command is not checked.
CommandStageUnchecked(op) ==
    /\ \E err \in BOOLEAN :
         /\ pc' = Succ(op)
         /\ calls' = Append(calls, Call(op, IF err THEN "exit" ELSE "none"))
         /\ applied' = IF err THEN applied ELSE applied \cup {op}
    /\ UNCHANGED <<fatalLine, namespaces, releases, repos, procVars, pollVars,
                   fileReads, envVars>>

\* RunCommand(...) and the check of its error in main().
CommandStage(op) ==
    /\ \E err \in BOOLEAN :
         IF err
         THEN Fatal(op, "exit") /\ UNCHANGED applied
         ELSE Return(op) /\ applied' = applied \cup {op}
    /\ UNCHANGED <<namespaces, releases, repos, procVars, pollVars,
                   fileReads, envVars>>

EnableKubelet ==
    /\ pc = "EnableKubelet"
    /\ CommandStage("EnableKubelet")

KubeadmInit ==
    /\ pc = "KubeadmInit"
    /\ CommandStage("KubeadmInit")

\* clientcmd.BuildConfigFromFlags reads and parses the credential file.
BuildConfig ==
    /\ pc = "BuildConfig"
    /\ fileReads' = fileReads + 1
    /\ \E err \in BOOLEAN :
         IF err THEN Fatal("BuildConfig", "parse") ELSE Return("BuildConfig")
    /\ UNCHANGED <<clusterVars, procVars, pollVars, envVars>>

NewClient ==
    /\ pc = "NewClient"
    /\ \E err \in BOOLEAN :
         IF err THEN Fatal("NewClient", "client") ELSE Return("NewClient")
    /\ UNCHANGED <<clusterVars, procVars, pollVars, fileReads, envVars>>

\* One pass of the loop up to its branch: the listing and the test of its
\* answer.
ListPods ==
    /\ pc = "ListPods"
    /\ \E ans \in ScriptedAnswers :
         /\ pc' = AfterList(ans)
         /\ IF Saturated(listCalls)
            THEN UNCHANGED <<calls, listCalls>>
            ELSE /\ listCalls' = listCalls + 1
                 /\ calls' = Append(calls,
                        Call("ListPods",
                             IF ans.err THEN "transport"
                             ELSE IF ans.items = 0 THEN "empty" ELSE "none"))
    /\ UNCHANGED <<clusterVars, procVars, slept, fatalLine, fileReads,
                   envVars>>

\* time.Sleep(time.Second * 10); continue
Sleep ==
    /\ pc = "Sleep"
    /\ pc' = "ListPods"
    /\ IF Saturated(slept \div SleepSeconds)
       THEN UNCHANGED <<calls, slept>>
       ELSE /\ slept' = slept + SleepSeconds
            /\ calls' = Append(calls, Call("Sleep", "none"))
    /\ UNCHANGED <<clusterVars, procVars, listCalls, fatalLine, fileReads,
                   envVars>>

Untaint ==
    /\ pc = "Untaint"
    /\ CommandStage("Untaint")

GatewayCRDs ==
    /\ pc = "GatewayCRDs"
    /\ CommandStage("GatewayCRDs")

\* Mutant: the error of the construction of the handle is dropped.
HelmClientStageUnchecked(op, ns) ==
    /\ \E fault \in {"none", "read", "client"} :
         LET h == helmClientForNs(ns, fault) IN
         /\ IF h.why = "none" THEN Return(op)
            ELSE IF h.why = "read" THEN Fatal(op, h.why)
            ELSE FatalLogsAndGoesOn(op, h.why)
         /\ kubeConfig' = h.kubeConfig
         /\ fileReads' = h.fileReads
    /\ UNCHANGED <<clusterVars, defaultIp, ciliumValues, installs, pollVars,
                   envVars>>

\* helmClientForNs(...) called from main(): helmClient, rookHelm.
HelmClientStage(op, ns) ==
    /\ \E fault \in {"none", "read", "client"} :
         LET h == helmClientForNs(ns, fault) IN
         /\ IF h.why = "none" THEN Return(op) ELSE Fatal(op, h.why)
         /\ kubeConfig' = h.kubeConfig
         /\ fileReads' = h.fileReads
    /\ UNCHANGED <<clusterVars, defaultIp, ciliumValues, installs, pollVars,
                   envVars>>

HelmClientDefault ==
    /\ pc = "HelmClientDefault"
    /\ HelmClientStage("HelmClientDefault", "default")

\* helmClient.AddOrUpdateChartRepo(entry)
RepoStage(op, name) ==
    /\ \E err \in BOOLEAN :
         IF err
         THEN Fatal(op, "repo") /\ UNCHANGED repos
         ELSE Return(op) /\ repos' = repos \cup {name}
    /\ UNCHANGED <<applied, namespaces, releases, procVars, pollVars,
                   fileReads, envVars>>

AddCiliumRepo ==
    /\ pc = "AddCiliumRepo"
    /\ RepoStage("AddCiliumRepo", "cilium")

AddKyvernoRepo ==
    /\ pc = "AddKyvernoRepo"
    /\ RepoStage("AddKyvernoRepo", "kyverno")

AddRookRepo ==
    /\ pc = "AddRookRepo"
    /\ RepoStage("AddRookRepo", "rook")

AddGitopsRepo ==
    /\ pc = "AddGitopsRepo"
    /\ RepoStage("AddGitopsRepo", "gitops")

\* GetDefaultIP().String(); the dial failing ends the process.
GetDefaultIP ==
    /\ pc = "GetDefaultIP"
    /\ \/ Fatal("GetDefaultIP", "dial") /\ UNCHANGED defaultIp
       \/ \E a \in Addresses : Return("GetDefaultIP") /\ defaultIp' = a
    /\ UNCHANGED <<clusterVars, kubeConfig, ciliumValues, installs,
                   pollVars, fileReads, envVars>>

\* Mutant: a failed install uninstalls the releases made so far.
InstallStageRollsBack(op) ==
    /\ \E fault \in Faults :
         LET out == ChartStage(op, fault) IN
         /\ IF out.why = "none" THEN Return(op) ELSE Fatal(op, out.why)
         /\ releases' = IF out.why = "none" THEN out.releases ELSE {}
         /\ installs' = installs \o out.handed
         /\ kubeConfig' = out.kubeConfig
         /\ fileReads' = out.fileReads
    /\ ciliumValues' =
         IF op = "InstallCilium" THEN ciliumSpec.ValuesYaml ELSE ciliumValues
    /\ UNCHANGED <<applied, namespaces, repos, defaultIp, pollVars, envVars>>

\* A chart-install stage and the check of its error in main().
InstallStage(op) ==
    /\ \E fault \in Faults :
         LET out == ChartStage(op, fault) IN
         /\ IF out.why = "none" THEN Return(op) ELSE Fatal(op, out.why)
         /\ releases' = out.releases
         /\ installs' = installs \o out.handed
         /\ kubeConfig' = out.kubeConfig
         /\ fileReads' = out.fileReads
    /\ ciliumValues' =
         IF op = "InstallCilium" THEN ciliumSpec.ValuesYaml ELSE ciliumValues
    /\ UNCHANGED <<applied, namespaces, repos, defaultIp, pollVars, envVars>>

InstallCilium ==
    /\ pc = "InstallCilium"
    /\ InstallStage("InstallCilium")

\* k8sClient.CoreV1().Namespaces().Create(...)
NamespaceStage(op, name) ==
    /\ \E fault \in BOOLEAN :
         LET out == CreateNamespace(name, fault) IN
         /\ IF out.why = "none" THEN Return(op) ELSE Fatal(op, out.why)
         /\ namespaces' = out.namespaces
    /\ UNCHANGED <<applied, releases, repos, procVars, pollVars, fileReads,
                   envVars>>

CreateKyvernoNs ==
    /\ pc = "CreateKyvernoNs"
    /\ NamespaceStage("CreateKyvernoNs", "kyverno")

InstallKyverno ==
    /\ pc = "InstallKyverno"
    /\ InstallStage("InstallKyverno")

CreateRookNs ==
    /\ pc = "CreateRookNs"
    /\ NamespaceStage("CreateRookNs", "rook-ceph")

RookOverrides ==
    /\ pc = "RookOverrides"
    /\ CommandStage("RookOverrides")

HelmClientRook ==
    /\ pc = "HelmClientRook"
    /\ HelmClientStage("HelmClientRook", "rook-ceph")

InstallRookOp ==
    /\ pc = "InstallRookOp"
    /\ InstallStage("InstallRookOp")

InstallRookCluster ==
    /\ pc = "InstallRookCluster"
    /\ InstallStage("InstallRookCluster")

CreateGitopsNs ==
    /\ pc = "CreateGitopsNs"
    /\ NamespaceStage("CreateGitopsNs", "weave-gitops")

InstallGitops ==
    /\ pc = "InstallGitops"
    /\ InstallStage("InstallGitops")

DefaultPolicies ==
    /\ pc = "DefaultPolicies"
    /\ CommandStage("DefaultPolicies")

\* The operator starts the program again on the cluster the last run left.
Restart ==
    /\ pc \in {"Done", "Failed"}
    /\ run < MaxRuns
    /\ run' = run + 1
    /\ pc' = Pipeline[1]
    /\ calls' = <<>>
    /\ kubeConfig' = <<>>
    /\ defaultIp' = <<>>
    /\ ciliumValues' = <<>>
    /\ listCalls' = 0
    /\ slept' = 0
    /\ fatalLine' = NoLine
    /\ installs' = <<>>
    /\ fileReads' = 0
    /\ nsAtStart' = namespaces
    /\ scriptN' \in (0..MaxNotReady) \cup {Never}
    /\ UNCHANGED <<clusterVars, CiliumYaml, invoked>>

Init ==
    /\ applied = {}
    /\ namespaces = {}
    /\ releases = {}
    /\ repos = {}
    /\ pc = Pipeline[1]
    /\ kubeConfig = <<>>
    /\ defaultIp = <<>>
    /\ ciliumValues = <<>>
    /\ calls = <<>>
    /\ listCalls = 0
    /\ slept = 0
    /\ fatalLine = NoLine
    /\ installs = <<>>
    /\ fileReads = 0
    /\ nsAtStart = {}
    /\ invoked = 0
    /\ run = 1
    /\ scriptN \in (0..MaxNotReady) \cup {Never}
    /\ CiliumYaml \in Templates

\* The steps of the process.
Step ==
    \/ EnableKubelet \/ KubeadmInit \/ BuildConfig \/ NewClient
    \/ ListPods \/ Sleep \/ Untaint \/ GatewayCRDs \/ HelmClientDefault
    \/ AddCiliumRepo \/ AddKyvernoRepo \/ AddRookRepo \/ AddGitopsRepo
    \/ GetDefaultIP \/ InstallCilium \/ CreateKyvernoNs \/ InstallKyverno
    \/ CreateRookNs \/ RookOverrides \/ HelmClientRook \/ InstallRookOp
    \/ InstallRookCluster \/ CreateGitopsNs \/ InstallGitops
    \/ DefaultPolicies

Next == Step \/ Restart

Spec == Init /\ [][Next]_vars

\* The process is scheduled as long as it can take a step.
SpecLive == Spec /\ WF_vars(Step)

----------------------------------------------------------------------------
(* The stage harness: a fresh process invokes chart-install stages, in any *)
(* order and more than once, on a cluster that has the namespaces and the  *)
(* repositories the stages need.                                           *)

InitStage ==
    /\ applied = {"EnableKubelet", "KubeadmInit", "Untaint", "GatewayCRDs"}
    /\ namespaces = {"kyverno", "rook-ceph", "weave-gitops"}
    /\ releases = {}
    /\ repos = {"cilium", "kyverno", "rook", "gitops"}
    /\ pc = "Harness"
    /\ kubeConfig = <<>>
    /\ defaultIp \in Addresses
    /\ ciliumValues = <<>>
    /\ calls = <<>>
    /\ listCalls = 0
    /\ slept = 0
    /\ fatalLine = NoLine
    /\ installs = <<>>
    /\ fileReads = 0
    /\ nsAtStart = namespaces
    /\ invoked = 0
    /\ run = 1
    /\ scriptN = 0
    /\ CiliumYaml = K8SHOST

\* One invocation of the chart-install stage op.  A failed read of the
\* credential file ends the process, any other error is returned.
InvokeStage(op) ==
    /\ invoked < MaxInvoke
    /\ invoked' = invoked + 1
    /\ \E fault \in Faults :
         LET out == ChartStage(op, fault) IN
         /\ calls' = Append(calls, Call(op, out.why))
         /\ pc' = IF out.why = "read" THEN "Failed" ELSE "Harness"
         /\ fatalLine' =
              IF out.why = "read" THEN FatalLine(op, out.why) ELSE fatalLine
         /\ releases' = out.releases
         /\ installs' = installs \o out.handed
         /\ kubeConfig' = out.kubeConfig
         /\ fileReads' = out.fileReads
    /\ ciliumValues' =
         IF op = "InstallCilium" THEN ciliumSpec.ValuesYaml ELSE ciliumValues
    /\ UNCHANGED <<applied, namespaces, repos, defaultIp, pollVars, run,
                   scriptN, CiliumYaml, nsAtStart>>

InvokeInstallCilium ==
    /\ pc = "Harness"
    /\ InvokeStage("InstallCilium")

InvokeInstallKyverno ==
    /\ pc = "Harness"
    /\ InvokeStage("InstallKyverno")

InvokeInstallRookOp ==
    /\ pc = "Harness"
    /\ InvokeStage("InstallRookOp")

InvokeInstallRookCluster ==
    /\ pc = "Harness"
    /\ InvokeStage("InstallRookCluster")

InvokeInstallGitops ==
    /\ pc = "Harness"
    /\ InvokeStage("InstallGitops")

NextStage ==
    \/ InvokeInstallCilium \/ InvokeInstallKyverno \/ InvokeInstallRookOp
    \/ InvokeInstallRookCluster \/ InvokeInstallGitops

SpecStage == InitStage /\ [][NextStage]_vars

----------------------------------------------------------------------------
(* Vocabulary of the properties                                            *)

\* The order of the calls as the specification of the pipeline gives it;
\* the properties below are stated against this order, the steps above
\* follow Pipeline.
StageOrder ==
    << "EnableKubelet", "KubeadmInit", "BuildConfig", "NewClient",
       "ListPods", "Untaint", "GatewayCRDs", "HelmClientDefault",
       "AddCiliumRepo", "AddKyvernoRepo", "AddRookRepo", "AddGitopsRepo",
       "GetDefaultIP", "InstallCilium", "CreateKyvernoNs", "InstallKyverno",
       "CreateRookNs", "RookOverrides", "HelmClientRook", "InstallRookOp",
       "InstallRookCluster", "CreateGitopsNs", "InstallGitops",
       "DefaultPolicies" >>

StageOps == {StageOrder[i] : i \in 1..Len(StageOrder)}

OrderOf(op) == CHOOSE i \in 1..Len(StageOrder) : StageOrder[i] = op

\* The calls that are later than op in the order.
LaterThan(op) == {o \in StageOps : OrderOf(o) > OrderOf(op)}

RepoOps == {"AddCiliumRepo", "AddKyvernoRepo", "AddRookRepo", "AddGitopsRepo"}

\* Constructions of clients and handles, which are not among the twelve
\* stages of the pipeline.
HandleOps == {"BuildConfig", "NewClient", "HelmClientDefault", "HelmClientRook"}

PollPcs == {"ListPods", "Sleep"}

\* The call op was made in this run.
Invoked(op) == \E i \in 1..Len(calls) : calls[i].op = op

\* The call op was made in this run before the i-th call and succeeded.
SucceededBefore(op, i) == \E j \in 1..(i - 1) : calls[j] = Call(op, "none")

\* A stage of the pipeline (the poll apart) has failed in this run.
StageFailed ==
    \E i \in 1..Len(calls) : calls[i].op # "ListPods" /\ IsErr(calls[i])

IsPrefix(s, t) == Len(s) <= Len(t) /\ s = SubSeq(t, 1, Len(s))

\* The pipeline has left the readiness loop for the taint removal.
Proceeded == pc = "Untaint" \/ Invoked("Untaint")

ListingsMade ==
    Len(SelectSeq(calls, LAMBDA c : c.op = "ListPods"))

NotReadyAnswers ==
    Len(SelectSeq(calls, LAMBDA c : c.op = "ListPods" /\ IsErr(c)))

----------------------------------------------------------------------------
(* Properties                                                              *)

\* C1: fail-fast abort.  A stage whose operation returned an error is the
\* last call of the run and the run is in the failed state; in particular,
\* after a failed storage-operator install neither the storage-cluster
\* install, the weave-gitops namespace creation, the GitOps install nor the
\* default-policy apply has been invoked.
C1_FailFastAbort ==
    /\ \A i \in 1..Len(calls) :
         (calls[i].op # "ListPods" /\ IsErr(calls[i]))
            => (i = Len(calls) /\ pc = "Failed")
    /\ (\E i \in 1..Len(calls) :
            calls[i].op = "InstallRookOp" /\ IsErr(calls[i]))
         => \A o \in {"InstallRookCluster", "CreateGitopsNs",
                      "InstallGitops", "DefaultPolicies"} : ~Invoked(o)

\* The storage-operator install has failed on a timeout.
C1_Witness ==
    /\ pc = "Failed"
    /\ Len(calls) > 0
    /\ calls[Len(calls)] = Call("InstallRookOp", "chart")

\* The twelve stages in their canonical order, the four registrations
\* taken as one kind of call.
Canon(op) == IF op \in RepoOps THEN "AddRepo" ELSE op

CanonicalOrder ==
    << "EnableKubelet", "KubeadmInit", "ListPods", "Untaint", "GatewayCRDs",
       "AddRepo", "AddRepo", "AddRepo", "AddRepo", "GetDefaultIP",
       "InstallCilium", "CreateKyvernoNs", "InstallKyverno", "CreateRookNs",
       "RookOverrides", "InstallRookOp", "InstallRookCluster",
       "CreateGitopsNs", "InstallGitops", "DefaultPolicies" >>

AllSucceeded == \A i \in 1..Len(calls) : ~IsErr(calls[i])

ObservedOrder ==
    LET staged == SelectSeq(calls, LAMBDA c : c.op \notin HandleOps) IN
    [i \in 1..Len(staged) |-> Canon(staged[i].op)]

\* C2: while every collaborator has succeeded on its first call, the calls
\* made are an initial part of the canonical order, the run has not failed,
\* and the run is in the success state exactly when the whole order has
\* been made.
C2_CanonicalOrder ==
    AllSucceeded =>
        /\ IsPrefix(ObservedOrder, CanonicalOrder)
        /\ pc # "Failed"
        /\ (pc = "Done" <=> ObservedOrder = CanonicalOrder)

\* A first run in which nothing failed has ended.
C2_Witness == pc = "Done" /\ AllSucceeded /\ run = 1

\* C3: when the listing answers not-ready N times and then ready, the
\* pipeline proceeds after exactly N+1 listings: every listing before it
\* proceeds was answered not-ready, it never lists more than N+1 times, and
\* once it has proceeded N+1 listings were made, the last one ready.
C3_PollCount ==
    scriptN # Never =>
        /\ ListingsMade = listCalls
        /\ listCalls <= scriptN + 1
        /\ ~Proceeded => NotReadyAnswers = ListingsMade
        /\ Proceeded =>
             /\ ListingsMade = scriptN + 1
             /\ NotReadyAnswers = scriptN

\* The pipeline has proceeded after two not-ready answers and three
\* listings.
C3_Witness == Proceeded /\ scriptN = 2 /\ listCalls = 3

\* C4: a not-ready answer never ends the run; while the listing never
\* becomes ready the run stays in the loop; when the listing becomes ready
\* after finitely many answers the run leaves the loop.
C4_PollUnbounded ==
    /\ [][(pc \in PollPcs) => (pc' \notin {"Failed", "Done"})]_vars
    /\ [][(scriptN = Never /\ pc \in PollPcs) => (pc' \in PollPcs)]_vars
    /\ (scriptN # Never /\ pc \in PollPcs) ~> (pc \notin PollPcs)

\* The loop is still going round after more not-ready answers than the
\* history counts.
C4_Witness ==
    /\ scriptN = Never
    /\ pc = "Sleep"
    /\ listCalls = PollCap
    /\ slept = PollCap * SleepSeconds

\* C5: no chart-install stage returns an error because its release exists
\* already.
C5_ChartInstallIdempotent ==
    \A i \in 1..Len(calls) :
        calls[i].op \in ChartStages => calls[i].why # "exists"

\* C6: when the template holds the placeholder, the payload handed to the
\* CNI install holds the discovered address and no placeholder.
C6_HostAddressSubstituted ==
    (Invoked("InstallCilium") /\ Contains(CiliumYaml, K8SHOST)) =>
        /\ Contains(ciliumValues, defaultIp)
        /\ ~Contains(ciliumValues, K8SHOST)

\* C7: when a chart install is invoked, all four repositories, the one of
\* the chart's prefix among them, have been registered successfully
\* earlier in the run.
C7_RepositoryBeforeInstall ==
    \A i \in 1..Len(calls) :
        calls[i].op \in ChartStages =>
            \A r \in RepoOps : SucceededBefore(r, i)

\* The last chart install of the pipeline has been invoked.
C7_Witness == Invoked("InstallGitops")

\* What a call uses, as the calls that provide it: its namespace, its
\* repository, its custom resource definitions.
Requires(op) ==
    CASE op = "InstallCilium" -> {"AddCiliumRepo", "GatewayCRDs"}
      [] op = "InstallKyverno" -> {"AddKyvernoRepo", "CreateKyvernoNs"}
      [] op = "RookOverrides" -> {"CreateRookNs"}
      [] op = "InstallRookOp" -> {"AddRookRepo", "CreateRookNs"}
      [] op = "InstallRookCluster" ->
           {"AddRookRepo", "CreateRookNs", "InstallRookOp"}
      [] op = "InstallGitops" -> {"AddGitopsRepo", "CreateGitopsNs"}
      [] op = "DefaultPolicies" -> {"InstallKyverno"}
      [] OTHER -> {}

\* C8: when a call that uses a namespace, a repository or custom resource
\* definitions is invoked, the calls that provide them have returned
\* success earlier in the run, and no install has found its repository or
\* its namespace missing.
C8_ProvidedBeforeUse ==
    \A i \in 1..Len(calls) :
        /\ \A p \in Requires(calls[i].op) : SucceededBefore(p, i)
        /\ calls[i].why \notin {"norepo", "nonamespace"}

\* The storage-cluster install and the default policies, the calls with
\* the most providers, have been invoked.
C8_Witness == Invoked("InstallRookCluster") /\ Invoked("DefaultPolicies")

\* C9: the run is in the success state only when every call of the pipeline
\* was made and returned without error; a failed stage puts the run in the
\* failed state, which is entered in no other way; and a run that can take
\* no step is in one of the two.
C9_ExitStatus ==
    /\ pc = "Done" => \A op \in StageOps : SucceededBefore(op, Len(calls) + 1)
    /\ StageFailed <=> pc = "Failed"
    /\ ~ENABLED Step => pc \in {"Done", "Failed"}

\* The run has ended in success.
C9_Witness == pc = "Done" /\ Len(calls) = Len(StageOrder)

NamespaceOf(op) ==
    CASE op = "CreateKyvernoNs" -> "kyverno"
      [] op = "CreateRookNs" -> "rook-ceph"
      [] op = "CreateGitopsNs" -> "weave-gitops"

C11_ReadinessGates ==
    \A i \in 1..Len(calls) :
        calls[i].op \in LaterThan("ListPods")
            => SucceededBefore("ListPods", i)

\* The custom resource definitions were applied after a poll with two
\* not-ready answers.
C11_Witness == Invoked("GatewayCRDs") /\ NotReadyAnswers = 2

CommandOps ==
    {"EnableKubelet", "KubeadmInit", "Untaint", "GatewayCRDs",
     "RookOverrides", "DefaultPolicies"}

InstallOps ==
    {"InstallCilium", "InstallKyverno", "InstallRookOp",
     "InstallRookCluster", "InstallGitops"}

\* What the call op leaves in the cluster when it succeeds is there.
Effected(op) ==
    CASE op \in CommandOps -> op \in applied
      [] op = "AddCiliumRepo" -> "cilium" \in repos
      [] op = "AddKyvernoRepo" -> "kyverno" \in repos
      [] op = "AddRookRepo" -> "rook" \in repos
      [] op = "AddGitopsRepo" -> "gitops" \in repos
      [] op \in {"CreateKyvernoNs", "CreateRookNs", "CreateGitopsNs"} ->
           NamespaceOf(op) \in namespaces
      [] op = "InstallCilium" -> <<"cilium", "kube-system">> \in releases
      [] op = "InstallKyverno" -> <<"kyverno", "kyverno">> \in releases
      [] op = "InstallRookOp" -> <<"rook-ceph", "rook-ceph">> \in releases
      [] op = "InstallRookCluster" ->
           <<"rook-ceph-cluster", "rook-ceph">> \in releases
      [] op = "InstallGitops" ->
           <<"weave-gitops", "weave-gitops">> \in releases
      [] OTHER -> TRUE

\* Every call of the run that succeeded has its effect in the cluster.
Kept == \A i \in 1..Len(calls) : calls[i].why = "none" => Effected(calls[i].op)

\* C12: no rollback.  Whatever the calls of the run that succeeded have
\* left in the cluster is there in every later state of the run, the failed
\* state included, and no step of any run removes a manifest, a
\* repository, a namespace or a release.
C12_NoRollback ==
    [][/\ applied \subseteq applied'
       /\ repos \subseteq repos'
       /\ namespaces \subseteq namespaces'
       /\ releases \subseteq releases'
       /\ Kept']_vars

\* The run has failed on the storage-operator install with the CNI and the
\* kyverno releases and the two namespaces made before it in place.
C12_Witness ==
    /\ pc = "Failed"
    /\ Len(calls) > 0
    /\ calls[Len(calls)].op = "InstallRookOp"
    /\ {<<"cilium", "kube-system">>, <<"kyverno", "kyverno">>}
          \subseteq releases
    /\ {"kyverno", "rook-ceph"} \subseteq namespaces

TimesInvoked(op) == Len(SelectSeq(calls, LAMBDA c : c.op = op))

\* C13: every call of the pipeline other than the pod listing is invoked at
\* most once in a run.
C13_AtMostOnce ==
    \A op \in StageOps \ {"ListPods"} : TimesInvoked(op) <= 1

\* A run that has succeeded made two listings and every other call once.
C13_Witness ==
    /\ pc = "Done"
    /\ TimesInvoked("ListPods") = 2
    /\ \A op \in StageOps \ {"ListPods"} : TimesInvoked(op) = 1

\* C14: in a run the process reads the credential file at most once.
C14_CredentialReadOnce == fileReads <= 1

\* The format strings of main() that name no stage: the four kubectl stages
\* share one.
GenericTexts == {"", "Kubectl output: %s"}

\* C15: when the run has failed, the line written last names the stage that
\* failed and embeds the error the failed operation returned.
C15_FailureLineNamesStageAndError ==
    pc = "Failed"
        => (fatalLine.text \notin GenericTexts /\ fatalLine.arg = "err")

\* C16: every spec handed to the chart installer in a run waits for the
\* resources and for the jobs and has a timeout of two to fifteen minutes,
\* and no two of them have the same release name and namespace.
C16_InstallSpecs ==
    /\ \A i \in 1..Len(installs) :
         /\ installs[i].Wait
         /\ installs[i].WaitForJobs
         /\ installs[i].Timeout >= 2
         /\ installs[i].Timeout <= 15
    /\ \A i, j \in 1..Len(installs) :
         i # j =>
            <<installs[i].ReleaseName, installs[i].Namespace>>
               # <<installs[j].ReleaseName, installs[j].Namespace>>

\* The five installs of a run have been made.
C16_Witness ==
    /\ Len(installs) = 5
    /\ {installs[i].ReleaseName : i \in 1..Len(installs)}
          = {"cilium", "kyverno", "rook-ceph", "rook-ceph-cluster",
             "weave-gitops"}

\* C17: the host address is discovered at most once in a run and once in a
\* run that succeeds, after the four repository registrations and before
\* the CNI install; once discovered it does not change; the payload of the
\* CNI install carries it in place of the placeholder and the payload of no
\* other install holds it.
C17_HostAddressOnce ==
    /\ [](/\ TimesInvoked("GetDefaultIP") <= 1
          /\ pc = "Done" => TimesInvoked("GetDefaultIP") = 1
          /\ \A i \in 1..Len(calls) :
               /\ calls[i].op = "GetDefaultIP"
                    => \A r \in RepoOps : SucceededBefore(r, i)
               /\ calls[i].op = "InstallCilium"
                    => SucceededBefore("GetDefaultIP", i)
          /\ \A i \in 1..Len(installs) :
               IF installs[i].ReleaseName = "cilium"
               THEN Contains(CiliumYaml, K8SHOST)
                       => Contains(installs[i].ValuesYaml, defaultIp)
               ELSE ~Contains(installs[i].ValuesYaml, defaultIp))
    /\ [][(defaultIp # <<>> /\ run' = run) => defaultIp' = defaultIp]_vars

\* A run has succeeded whose CNI payload had the placeholder and carries the
\* address.
C17_Witness ==
    /\ pc = "Done"
    /\ Len(installs) = 5
    /\ Contains(CiliumYaml, K8SHOST)
    /\ Contains(installs[1].ValuesYaml, defaultIp)
    /\ defaultIp \in Addresses

\* C18: poll spacing.  A wait of ten seconds follows every not-ready
\* listing and nothing else: a wait comes right after a not-ready listing
\* and right before the next listing, the ready listing is followed by the
\* taint removal, and a poll that has ended after N not-ready answers has
\* waited N times ten seconds.
C18_PollSpacing ==
    /\ \A i \in 1..Len(calls) :
         /\ calls[i].op = "Sleep" =>
              /\ i > 1
              /\ calls[i - 1].op = "ListPods"
              /\ IsErr(calls[i - 1])
              /\ i < Len(calls) => calls[i + 1].op = "ListPods"
         /\ (calls[i].op = "ListPods" /\ i < Len(calls)) =>
              calls[i + 1].op = (IF IsErr(calls[i]) THEN "Sleep" ELSE "Untaint")
    /\ slept = 10 * TimesInvoked("Sleep")
    /\ scriptN # Never =>
         /\ (Len(calls) > 0 /\ calls[Len(calls)].op = "ListPods"
                /\ IsErr(calls[Len(calls)])) => pc = "Sleep"
         /\ pc = "Sleep" => slept = 10 * (NotReadyAnswers - 1)
         /\ pc # "Sleep" => slept = 10 * NotReadyAnswers

\* The taint removal has started after two not-ready answers and twenty
\* seconds of waiting.
C18_Witness == Invoked("Untaint") /\ NotReadyAnswers = 2 /\ slept = 20

\* C19: the constructions outside the stages are fatal and ordered.  A
\* failed parse of the admin config, a failed construction of the API
\* client, a failed read of the credential file or a failed construction of
\* a handle is the last call of the run; no pod listing is made without the
\* config and the API client, no registration and no install on a handle of
\* main() without that handle, and an install stage whose own handle failed
\* hands no spec to the installer.
C19_ConstructionFailuresFatal ==
    /\ \A i \in 1..Len(calls) :
         /\ (calls[i].op \in HandleOps /\ IsErr(calls[i]))
              => (i = Len(calls) /\ pc = "Failed")
         /\ calls[i].why \in {"read", "client"}
              => (i = Len(calls) /\ pc = "Failed")
         /\ calls[i].op = "ListPods" =>
              /\ SucceededBefore("BuildConfig", i)
              /\ SucceededBefore("NewClient", i)
         /\ calls[i].op \in RepoOps \cup {"InstallCilium"}
              => SucceededBefore("HelmClientDefault", i)
         /\ calls[i].op \in {"InstallRookOp", "InstallRookCluster"}
              => SucceededBefore("HelmClientRook", i)
    /\ Len(installs) =
         Len(SelectSeq(calls, LAMBDA c : /\ c.op \in InstallOps
                                         /\ c.why \notin {"read", "client"}))

\* The construction of the rook-ceph handle has failed.
C19_Witness ==
    /\ pc = "Failed"
    /\ Len(calls) > 0
    /\ calls[Len(calls)] = Call("HelmClientRook", "client")

=============================================================================
